---- MODULE Spec2Model ----
(***************************************************************************)
(* A model of Unordered_Map<Key, Value> (src/Unordered_Map.h): a hash      *)
(* table whose entries are threaded on one circular singly linked list     *)
(* closed by a sentinel (Elist), with one anchor pointer per bucket that   *)
(* points to the node preceding the bucket's first entry.                  *)
(*                                                                         *)
(* Pointers are heap addresses (positive integers, nullptr = 0).  The heap *)
(* is a function from the allocated addresses to the objects stored there; *)
(* new takes the lowest free address and delete removes the address from   *)
(* the heap's domain.  Every operation of the class is one action.         *)
(***************************************************************************)
EXTENDS Integers, Sequences, FiniteSets, TLC

\* ------------------------------------------------------------------ bounds
MaxKey == 2
MaxVal == 1
MaxReserve == 4
MaxInitBuckets == 2
\* The number of operations a run of SpecCopy performs on its two objects.
MaxOps == 5

Keys == 0..MaxKey
Vals == 0..MaxVal
ReserveSizes == 0..MaxReserve
InitBuckets == 0..MaxInitBuckets
\* Two objects of the class: "a" is constructed at start, "b" is created by
\* copy construction.
Maps == {"a", "b"}
\* max_load_factor arguments, a double f written as the ratio <<num, den>>.
LoadFactors == {<<1, 2>>, <<1, 1>>, <<3, 2>>}
BadLoadFactors == {<<0, 1>>}

nullptr == 0
\* Value(), the value operator[] inserts for an absent key.
DefaultValue == 0

\* heap: the allocated objects; maps: the members of each object of the class;
\* abs: for each object, the pairs its callers have put in and not taken out
\* (history only); last: the last call and how it ended; nops: the number of
\* calls made so far (counted by SpecCopy and SpecMove).
VARIABLES heap, maps, abs, last, nops

vars == <<heap, maps, abs, last, nops>>

\* ----------------------------------------------------------------- helpers
\* std::hash<Key> for an integral key.
hasher(k) == k

\* operator new: the lowest address not in use.
NewAddr(h) ==
  LET free == {a \in 1..(Cardinality(DOMAIN h) + 1) : a \notin DOMAIN h}
  IN CHOOSE a \in free : \A b \in free : a <= b

\* operator delete.
Free(h, a) == [x \in (DOMAIN h) \ {a} |-> h[x]]

\* struct Node; the sentinel is raw storage of which only next_node is set.
Node(key, val, cache) ==
  [next_node |-> nullptr, cached |-> cache, key |-> key, val |-> val]

NullBuckets(n) == [i \in 0..(n - 1) |-> nullptr]

\* An object that is not constructed (or was destroyed).
NoMap ==
  [alive |-> FALSE, Elist |-> nullptr, _size |-> 0, buckets_count |-> 0,
   buckets |-> NullBuckets(0), _max_load_factor |-> <<1, 1>>]

__create_Elist(h) ==
  LET e == NewAddr(h)
  IN [heap |-> h @@ (e :> [next_node |-> e]), Elist |-> e]

\* Unordered_Map(size_t num_of_buckets)
Construct(h, n) ==
  LET s == __create_Elist(h)
  IN [heap |-> s.heap,
      map |-> [alive |-> TRUE, Elist |-> s.Elist, _size |-> 0,
               buckets_count |-> n, buckets |-> NullBuckets(n),
               _max_load_factor |-> <<1, 1>>]]

\* __hash, the case buckets_count # 0 (the callers model the throw).
__hash(c, key) == hasher(key) % c.buckets_count

\* The loop of __find and __find_in_bucket: the node of the run of bucket
\* buck that holds key, or the sentinel.
RECURSIVE BucketWalk(_, _, _, _, _)
BucketWalk(h, E, node, buck, key) ==
  IF node # E /\ h[node].cached = buck
  THEN IF h[node].key = key
       THEN node
       ELSE BucketWalk(h, E, h[node].next_node, buck, key)
  ELSE E

\* A lookup that gives up after the first entry of the run.
__find_in_bucket_FirstOnly(h, c, buck, key) ==
  IF c.buckets[buck] = nullptr
  THEN FALSE
  ELSE LET node == h[c.buckets[buck]].next_node
       IN node # c.Elist /\ h[node].cached = buck /\ h[node].key = key

__find_in_bucket(h, c, buck, key) ==
  IF c.buckets[buck] = nullptr
  THEN FALSE
  ELSE BucketWalk(h, c.Elist, h[c.buckets[buck]].next_node, buck, key) # c.Elist

__find(h, c, key) ==
  LET buck == __hash(c, key)
  IN IF c.buckets[buck] = nullptr
     THEN c.Elist
     ELSE BucketWalk(h, c.Elist, h[c.buckets[buck]].next_node, buck, key)

\* An insert at the head that leaves the former head's bucket anchored at the
\* sentinel.
__insert_in_empty_bucket_NoRepair(h, c, buck, n) ==
  LET h1 == [h EXCEPT ![n].next_node = h[c.Elist].next_node]
      h2 == [h1 EXCEPT ![c.Elist].next_node = n]
  IN [heap |-> h2, map |-> [c EXCEPT !.buckets[buck] = c.Elist]]

__insert_in_empty_bucket(h, c, buck, n) ==
  LET h1 == [h EXCEPT ![n].next_node = h[c.Elist].next_node]
      h2 == [h1 EXCEPT ![c.Elist].next_node = n]
      b1 == [c.buckets EXCEPT ![buck] = c.Elist]
      b2 == IF h2[n].next_node # c.Elist
            THEN [b1 EXCEPT ![h2[h2[n].next_node].cached] = n]
            ELSE b1
  IN [heap |-> h2, map |-> [c EXCEPT !.buckets = b2]]

__insert_in_nonempty_bucket(h, c, buck, n) ==
  LET h1 == [h EXCEPT ![n].next_node = h[c.buckets[buck]].next_node]
      h2 == [h1 EXCEPT ![c.buckets[buck]].next_node = n]
  IN [heap |-> h2, map |-> c]

\* A rehash that re-links the nodes without storing their new bucket index.
RECURSIVE RehashLoop_KeepCached(_, _, _, _, _)
RehashLoop_KeepCached(h, E, nb, next, n) ==
  IF next = E
  THEN [heap |-> h, buckets |-> nb]
  ELSE LET node == next
           nx == h[node].next_node
           buck == hasher(h[node].key) % n
       IN IF nb[buck] = nullptr
          THEN LET h2 == [h EXCEPT ![node].next_node = h[E].next_node]
                   h3 == [h2 EXCEPT ![E].next_node = node]
                   nb1 == [nb EXCEPT ![buck] = E]
                   nb2 == IF h3[node].next_node # E
                          THEN [nb1 EXCEPT ![hasher(h3[h3[node].next_node].key) % n] = node]
                          ELSE nb1
               IN RehashLoop_KeepCached(h3, E, nb2, nx, n)
          ELSE LET h2 == [h EXCEPT ![node].next_node = h[nb[buck]].next_node]
                   h3 == [h2 EXCEPT ![nb[buck]].next_node = node]
               IN RehashLoop_KeepCached(h3, E, nb, nx, n)

\* The while loop of __rehash: next is the head of the detached list, nb the
\* new bucket array.
RECURSIVE RehashLoop(_, _, _, _, _)
RehashLoop(h, E, nb, next, n) ==
  IF next = E
  THEN [heap |-> h, buckets |-> nb]
  ELSE LET node == next
           nx == h[node].next_node
           buck == hasher(h[node].key) % n
           h1 == [h EXCEPT ![node].cached = buck]
       IN IF nb[buck] = nullptr
          THEN LET h2 == [h1 EXCEPT ![node].next_node = h1[E].next_node]
                   h3 == [h2 EXCEPT ![E].next_node = node]
                   nb1 == [nb EXCEPT ![buck] = E]
                   nb2 == IF h3[node].next_node # E
                          THEN [nb1 EXCEPT ![h3[h3[node].next_node].cached] = node]
                          ELSE nb1
               IN RehashLoop(h3, E, nb2, nx, n)
          ELSE LET h2 == [h1 EXCEPT ![node].next_node = h1[nb[buck]].next_node]
                   h3 == [h2 EXCEPT ![nb[buck]].next_node = node]
               IN RehashLoop(h3, E, nb, nx, n)

\* A rehash that empties the list and never links the detached nodes back.
__rehash_Detaches(h, c, n) ==
  [heap |-> [h EXCEPT ![c.Elist].next_node = c.Elist],
   map |-> [c EXCEPT !.buckets_count = n, !.buckets = NullBuckets(n)]]

__rehash(h, c, n) ==
  LET first == h[c.Elist].next_node
      h0 == [h EXCEPT ![c.Elist].next_node = c.Elist]
      r == RehashLoop(h0, c.Elist, NullBuckets(n), first, n)
  IN [heap |-> r.heap,
      map |-> [c EXCEPT !.buckets_count = n, !.buckets = r.buckets]]

\* _size / buckets_count >= _max_load_factor: the quotient of two size_t is
\* an integer quotient, converted to double for the comparison.
LoadExceeded(c) ==
  (c._size \div c.buckets_count) * c._max_load_factor[2] >= c._max_load_factor[1]

\* An insert without the check for the key.
insert_NoDuplicateCheck(h, c, key, val) ==
  IF c.buckets_count = 0
  THEN [heap |-> h, map |-> c, result |-> "InvalidState", ret |-> nullptr,
        rehash |-> FALSE]
  ELSE
    LET buck == __hash(c, key)
        n == NewAddr(h)
        h1 == h @@ (n :> Node(key, val, buck))
        s1 == IF c.buckets[buck] = nullptr
              THEN __insert_in_empty_bucket(h1, c, buck, n)
              ELSE __insert_in_nonempty_bucket(h1, c, buck, n)
        c2 == [s1.map EXCEPT !._size = @ + 1]
        s3 == IF LoadExceeded(c2)
              THEN __rehash(s1.heap, c2, c2.buckets_count * 2)
              ELSE [heap |-> s1.heap, map |-> c2]
    IN [heap |-> s3.heap, map |-> s3.map, result |-> "ok", ret |-> n,
        rehash |-> LoadExceeded(c2)]

\* An insert that caches the key's hash in the node, not its bucket index.
insert_CachesHash(h, c, key, val) ==
  IF c.buckets_count = 0
  THEN [heap |-> h, map |-> c, result |-> "InvalidState", ret |-> nullptr,
        rehash |-> FALSE]
  ELSE
    LET buck == __hash(c, key)
    IN IF __find_in_bucket(h, c, buck, key)
       THEN [heap |-> h, map |-> c, result |-> "DuplicateKey", ret |-> nullptr,
             rehash |-> FALSE]
       ELSE
         LET n == NewAddr(h)
             h1 == h @@ (n :> Node(key, val, hasher(key)))
             s1 == IF c.buckets[buck] = nullptr
                   THEN __insert_in_empty_bucket(h1, c, buck, n)
                   ELSE __insert_in_nonempty_bucket(h1, c, buck, n)
             c2 == [s1.map EXCEPT !._size = @ + 1]
             s3 == IF LoadExceeded(c2)
                   THEN __rehash(s1.heap, c2, c2.buckets_count * 2)
                   ELSE [heap |-> s1.heap, map |-> c2]
         IN [heap |-> s3.heap, map |-> s3.map, result |-> "ok", ret |-> n,
             rehash |-> LoadExceeded(c2)]

\* insert(const std::pair<Key, Value>&)
insert(h, c, key, val) ==
  IF c.buckets_count = 0
  THEN [heap |-> h, map |-> c, result |-> "InvalidState", ret |-> nullptr,
        rehash |-> FALSE]
  ELSE
    LET buck == __hash(c, key)
    IN IF __find_in_bucket(h, c, buck, key)
       THEN [heap |-> h, map |-> c, result |-> "DuplicateKey", ret |-> nullptr,
             rehash |-> FALSE]
       ELSE
         LET n == NewAddr(h)
             h1 == h @@ (n :> Node(key, val, buck))
             s1 == IF c.buckets[buck] = nullptr
                   THEN __insert_in_empty_bucket(h1, c, buck, n)
                   ELSE __insert_in_nonempty_bucket(h1, c, buck, n)
             c2 == [s1.map EXCEPT !._size = @ + 1]
             s3 == IF LoadExceeded(c2)
                   THEN __rehash(s1.heap, c2, c2.buckets_count * 2)
                   ELSE [heap |-> s1.heap, map |-> c2]
         IN [heap |-> s3.heap, map |-> s3.map, result |-> "ok", ret |-> n,
             rehash |-> LoadExceeded(c2)]

\* An erase that empties the bucket whenever the successor is in another
\* bucket, without looking at the predecessor.
RECURSIVE EraseLoop_AlwaysEmpties(_, _, _, _, _, _)
EraseLoop_AlwaysEmpties(h, c, buck, key, before, node) ==
  IF node # c.Elist /\ h[node].cached = buck
  THEN IF h[node].key = key
       THEN LET nx == h[node].next_node
                h1 == [h EXCEPT ![before].next_node = nx]
                beforeOutside == before = c.Elist \/ h1[before].cached # buck
                b1 == IF nx = c.Elist /\ beforeOutside
                      THEN [c.buckets EXCEPT ![buck] = nullptr]
                      ELSE IF nx # c.Elist /\ h1[nx].cached # buck
                           THEN [c.buckets EXCEPT ![h1[nx].cached] = before,
                                                  ![buck] = nullptr]
                           ELSE c.buckets
            IN [heap |-> Free(h1, node),
                map |-> [c EXCEPT !.buckets = b1, !._size = @ - 1],
                result |-> "ok"]
       ELSE EraseLoop_AlwaysEmpties(h, c, buck, key, node, h[node].next_node)
  ELSE [heap |-> h, map |-> c, result |-> "KeyNotFound"]

\* The while loop of erase: before precedes node in the traversal list.
RECURSIVE EraseLoop(_, _, _, _, _, _)
EraseLoop(h, c, buck, key, before, node) ==
  IF node # c.Elist /\ h[node].cached = buck
  THEN IF h[node].key = key
       THEN LET nx == h[node].next_node
                h1 == [h EXCEPT ![before].next_node = nx]
                beforeOutside == before = c.Elist \/ h1[before].cached # buck
                b1 == IF nx = c.Elist /\ beforeOutside
                      THEN [c.buckets EXCEPT ![buck] = nullptr]
                      ELSE IF nx # c.Elist /\ h1[nx].cached # buck
                           THEN LET b0 == [c.buckets EXCEPT ![h1[nx].cached] = before]
                                IN IF beforeOutside
                                   THEN [b0 EXCEPT ![buck] = nullptr]
                                   ELSE b0
                           ELSE c.buckets
            IN [heap |-> Free(h1, node),
                map |-> [c EXCEPT !.buckets = b1, !._size = @ - 1],
                result |-> "ok"]
       ELSE EraseLoop(h, c, buck, key, node, h[node].next_node)
  ELSE [heap |-> h, map |-> c, result |-> "KeyNotFound"]

\* What a build can do with buckets[buck]->next_node when buckets[buck] is
\* nullptr (undefined behaviour): the process dies on the access, or the
\* read yields something that ends the loop at once and erase throws.
NullDerefOutcomes == {"crash", "KeyNotFound"}

\* erase(const Key&); ub is the outcome taken if the call dereferences nullptr.
erase(h, c, key, ub) ==
  IF c.buckets_count = 0
  THEN [heap |-> h, map |-> c, result |-> "InvalidState"]
  ELSE LET buck == __hash(c, key)
           before == c.buckets[buck]
       IN IF before = nullptr
          THEN [heap |-> h, map |-> c, result |-> ub]
          ELSE EraseLoop(h, c, buck, key, before, h[before].next_node)

\* A clear loop that releases the nodes and leaves the anchors as they are.
RECURSIVE ClearLoop_KeepAnchors(_, _, _, _)
ClearLoop_KeepAnchors(h, E, b, node) ==
  IF node # E
  THEN ClearLoop_KeepAnchors(Free(h, node), E, b, h[node].next_node)
  ELSE [heap |-> h, buckets |-> b]

\* The while loop of clear.
RECURSIVE ClearLoop(_, _, _, _)
ClearLoop(h, E, b, node) ==
  IF node # E
  THEN ClearLoop(Free(h, node), E, [b EXCEPT ![h[node].cached] = nullptr],
                 h[node].next_node)
  ELSE [heap |-> h, buckets |-> b]

\* clear()
clear(h, c) ==
  IF c.Elist = nullptr
  THEN [heap |-> h, map |-> c]
  ELSE LET r == ClearLoop(h, c.Elist, c.buckets, h[c.Elist].next_node)
       IN [heap |-> [r.heap EXCEPT ![c.Elist].next_node = c.Elist],
           map |-> [c EXCEPT !.buckets = r.buckets, !._size = 0]]

\* reserve(size_t new_buckets_count)
reserve(h, c, n) ==
  IF n < c.buckets_count
  THEN [heap |-> h, map |-> c, result |-> "InvalidArgument"]
  ELSE LET r == __rehash(h, c, n)
       IN [heap |-> r.heap, map |-> r.map, result |-> "ok"]

\* A copy loop that gives every copied node the cached index 0.
RECURSIVE CopyLoop_CachesZero(_, _, _, _)
CopyLoop_CachesZero(h, c, otherElist, it) ==
  IF it = otherElist
  THEN [heap |-> h, map |-> c]
  ELSE LET n == NewAddr(h)
           h1 == h @@ (n :> Node(h[it].key, h[it].val, 0))
           s == IF c.buckets[h1[n].cached] = nullptr
                THEN __insert_in_empty_bucket(h1, c, h1[n].cached, n)
                ELSE __insert_in_nonempty_bucket(h1, c, h1[n].cached, n)
       IN CopyLoop_CachesZero(s.heap, s.map, otherElist, h[it].next_node)

\* The for loop of the copy constructor: it walks the source's list.
RECURSIVE CopyLoop(_, _, _, _)
CopyLoop(h, c, otherElist, it) ==
  IF it = otherElist
  THEN [heap |-> h, map |-> c]
  ELSE LET n == NewAddr(h)
           h1 == h @@ (n :> Node(h[it].key, h[it].val, h[it].cached))
           s == IF c.buckets[h1[n].cached] = nullptr
                THEN __insert_in_empty_bucket(h1, c, h1[n].cached, n)
                ELSE __insert_in_nonempty_bucket(h1, c, h1[n].cached, n)
       IN CopyLoop(s.heap, s.map, otherElist, h[it].next_node)

\* A copy constructor that starts the count at zero.
CopyConstruct_SizeZero(h, other) ==
  LET s == __create_Elist(h)
      c == [alive |-> TRUE, Elist |-> s.Elist, _size |-> 0,
            buckets_count |-> other.buckets_count,
            buckets |-> NullBuckets(other.buckets_count),
            _max_load_factor |-> other._max_load_factor]
  IN CopyLoop(s.heap, c, other.Elist, h[other.Elist].next_node)

\* A copy constructor that takes the source's pointers instead of copying
\* what they point to.
CopyConstruct_Shallow(h, other) ==
  [heap |-> h, map |-> other]

\* Unordered_Map(const U_Map& other)
CopyConstruct(h, other) ==
  LET s == __create_Elist(h)
      c == [alive |-> TRUE, Elist |-> s.Elist, _size |-> other._size,
            buckets_count |-> other.buckets_count,
            buckets |-> NullBuckets(other.buckets_count),
            _max_load_factor |-> other._max_load_factor]
  IN CopyLoop(s.heap, c, other.Elist, h[other.Elist].next_node)

\* ~Unordered_Map()
Destruct(h, c) ==
  LET r == clear(h, c)
  IN IF c.Elist = nullptr THEN r.heap ELSE Free(r.heap, c.Elist)

\* operator=(const U_Map& other), the case this # &other: the members are
\* taken from the temporary, whose destructor then finds nothing to release.
CopyAssign(h, c, other) ==
  LET tmp == CopyConstruct(h, other)
      h1 == Destruct(tmp.heap, c)
  IN [heap |-> h1, map |-> tmp.map]

\* The state a move leaves its source in: buckets and Elist are set to
\* nullptr together (lines 137-138 and 158-159), every other member keeps
\* its value.  A null bucket array is written as the array of no cells.
MovedFrom(c) == c.alive /\ c.Elist = nullptr

\* A move constructor that leaves the source its pointers.
MoveConstruct_SourceKept(other) ==
  [map |-> other, source |-> other]

\* Unordered_Map(U_Map&& other)
MoveConstruct(other) ==
  [map |-> other,
   source |-> [other EXCEPT !.Elist = nullptr, !.buckets = NullBuckets(0)]]

\* A move assignment that takes the source's members over its own without
\* releasing what it held.
MoveAssign_NoRelease(h, c, other) ==
  [heap |-> h,
   map |-> other,
   source |-> [other EXCEPT !.Elist = nullptr, !.buckets = NullBuckets(0)]]

\* operator=(U_Map&& other), the case this # &other: clear(), the two
\* deletes, then the members of other.
MoveAssign(h, c, other) ==
  [heap |-> Destruct(h, c),
   map |-> other,
   source |-> [other EXCEPT !.Elist = nullptr, !.buckets = NullBuckets(0)]]

\* The inner while loop of operator==: ot walks other's list while the
\* cached index is pos.
RECURSIVE EqWalk(_, _, _, _, _)
EqWalk(h, otherElist, ot, pos, key) ==
  IF ot # otherElist /\ h[ot].cached = pos
  THEN IF key = h[ot].key
       THEN TRUE
       ELSE EqWalk(h, otherElist, h[ot].next_node, pos, key)
  ELSE FALSE

\* What a read of other.buckets[pos]->next_node can end in when the array
\* is null, pos is past its end, or the cell holds nullptr.
EqualUBOutcomes == {"crash", "true", "false"}

\* The outer while loop of operator==: th walks this list; ub is the outcome
\* of the undefined read.
RECURSIVE EqLoop(_, _, _, _, _)
EqLoop(h, c, other, th, ub) ==
  IF th = c.Elist
  THEN "true"
  ELSE LET pos == h[th].cached
       IN IF pos \notin DOMAIN other.buckets
          THEN ub
          ELSE IF other.buckets[pos] = nullptr
               THEN ub
               ELSE IF EqWalk(h, other.Elist, h[other.buckets[pos]].next_node,
                              pos, h[th].key)
                    THEN EqLoop(h, c, other, h[th].next_node, ub)
                    ELSE "false"

\* operator==(const U_Map& other)
operator_eq(h, c, other, ub) ==
  IF c._size # other._size
  THEN "false"
  ELSE IF c.Elist = nullptr
       THEN ub
       ELSE EqLoop(h, c, other, h[c.Elist].next_node, ub)

\* The two allocations of insert that can throw std::bad_alloc: the node
\* (line 386) and, inside __rehash, the new bucket array (line 314).
AllocSites == {"node", "buckets"}

\* insert when the allocation at site throws: the node allocation comes
\* before any write; the bucket array is allocated by the automatic rehash,
\* after the node is linked and _size incremented.  When the load test does
\* not ask for a rehash the array is not allocated and the call succeeds.
insert_bad_alloc(h, c, key, val, site) ==
  IF c.buckets_count = 0
  THEN [heap |-> h, map |-> c, result |-> "InvalidState", rehash |-> FALSE]
  ELSE
    LET buck == __hash(c, key)
    IN IF __find_in_bucket(h, c, buck, key)
       THEN [heap |-> h, map |-> c, result |-> "DuplicateKey", rehash |-> FALSE]
       ELSE IF site = "node"
       THEN [heap |-> h, map |-> c, result |-> "bad_alloc", rehash |-> FALSE]
       ELSE
         LET n == NewAddr(h)
             h1 == h @@ (n :> Node(key, val, buck))
             s1 == IF c.buckets[buck] = nullptr
                   THEN __insert_in_empty_bucket(h1, c, buck, n)
                   ELSE __insert_in_nonempty_bucket(h1, c, buck, n)
             c2 == [s1.map EXCEPT !._size = @ + 1]
         IN [heap |-> s1.heap, map |-> c2,
             result |-> IF LoadExceeded(c2) THEN "bad_alloc" ELSE "ok",
             rehash |-> LoadExceeded(c2)]

\* reserve when the allocation of the new bucket array, the first statement
\* of __rehash, throws std::bad_alloc.
reserve_bad_alloc(h, c, n) ==
  IF n < c.buckets_count
  THEN [heap |-> h, map |-> c, result |-> "InvalidArgument", rehash |-> FALSE]
  ELSE [heap |-> h, map |-> c, result |-> "bad_alloc", rehash |-> TRUE]

\* ------------------------------------------------------------------ state
Running == last.result \notin {"crash", "terminate"}

\* The record of a call: the member function, how it ended (its result or the
\* exception it threw), and whether it ran __rehash.
Done(op, result, rehash) == [op |-> op, result |-> result, rehash |-> rehash]

Init ==
  \E n \in InitBuckets :
    LET s == Construct(<<>>, n)
    IN /\ heap = s.heap
       /\ maps = [m \in Maps |-> IF m = "a" THEN s.map ELSE NoMap]
       /\ abs = [m \in Maps |-> <<>>]
       /\ last = Done("construct", "ok", FALSE)
       /\ nops = 0

Insert(m, key, val) ==
  /\ Running
  /\ maps[m].alive
  /\ LET r == insert(heap, maps[m], key, val)
     IN /\ heap' = r.heap
        /\ maps' = [maps EXCEPT ![m] = r.map]
        /\ abs' = IF r.result = "ok"
                  THEN [abs EXCEPT ![m] = (key :> val) @@ @]
                  ELSE abs
        /\ last' = Done("insert", r.result, r.rehash)

Erase(m, key) ==
  /\ Running
  /\ maps[m].alive
  /\ \E ub \in NullDerefOutcomes :
       LET r == erase(heap, maps[m], key, ub)
       IN /\ heap' = r.heap
          /\ maps' = [maps EXCEPT ![m] = r.map]
          /\ abs' = IF r.result = "ok"
                    THEN [abs EXCEPT ![m] = [k \in (DOMAIN @) \ {key} |-> @[k]]]
                    ELSE abs
          /\ last' = Done("erase", r.result, FALSE)

Clear(m) ==
  /\ Running
  /\ maps[m].alive
  /\ LET r == clear(heap, maps[m])
     IN /\ heap' = r.heap
        /\ maps' = [maps EXCEPT ![m] = r.map]
        /\ abs' = [abs EXCEPT ![m] = <<>>]
        /\ last' = Done("clear", "ok", FALSE)

Reserve(m, n) ==
  /\ Running
  /\ maps[m].alive
  /\ LET r == reserve(heap, maps[m], n)
     IN /\ heap' = r.heap
        /\ maps' = [maps EXCEPT ![m] = r.map]
        /\ last' = Done("reserve", r.result, r.result = "ok")
  /\ UNCHANGED abs

\* max_load_factor(double f)
SetMaxLoadFactor(m, f) ==
  /\ Running
  /\ maps[m].alive
  /\ IF f[1] <= 0
     THEN /\ last' = Done("max_load_factor", "InvalidArgument", FALSE)
          /\ UNCHANGED maps
     ELSE /\ maps' = [maps EXCEPT ![m]._max_load_factor = f]
          /\ last' = Done("max_load_factor", "ok", FALSE)
  /\ UNCHANGED <<heap, abs>>

\* contains(key): __hash throws inside a noexcept function when there is no
\* bucket, which ends the process (std::terminate).
Contains(m, key) ==
  /\ Running
  /\ maps[m].alive
  /\ last' = Done("contains", IF maps[m].buckets_count = 0 THEN "terminate"
                  ELSE IF __find_in_bucket(heap, maps[m], __hash(maps[m], key), key)
                       THEN "true" ELSE "false",
                  FALSE)
  /\ UNCHANGED <<heap, maps, abs>>

\* find(key): __find is noexcept as well.
Find(m, key) ==
  /\ Running
  /\ maps[m].alive
  /\ last' = Done("find", IF maps[m].buckets_count = 0 THEN "terminate"
                  ELSE IF __find(heap, maps[m], key) = maps[m].Elist
                       THEN "end" ELSE "found",
                  FALSE)
  /\ UNCHANGED <<heap, maps, abs>>

\* at(key), read through the returned reference.
At(m, key) ==
  /\ Running
  /\ maps[m].alive
  /\ last' = Done("at", IF maps[m].buckets_count = 0 THEN "terminate"
                  ELSE IF __find(heap, maps[m], key) = maps[m].Elist
                       THEN "KeyNotFound" ELSE "ok",
                  FALSE)
  /\ UNCHANGED <<heap, maps, abs>>

\* at(key) = val: a write through the returned reference.
AtAssign(m, key, val) ==
  /\ Running
  /\ maps[m].alive
  /\ IF maps[m].buckets_count = 0
     THEN /\ last' = Done("at=", "terminate", FALSE)
          /\ UNCHANGED <<heap, abs>>
     ELSE LET node == __find(heap, maps[m], key)
          IN IF node = maps[m].Elist
             THEN /\ last' = Done("at=", "KeyNotFound", FALSE)
                  /\ UNCHANGED <<heap, abs>>
             ELSE /\ heap' = [heap EXCEPT ![node].val = val]
                  /\ abs' = [abs EXCEPT ![m] = (key :> val) @@ @]
                  /\ last' = Done("at=", "ok", FALSE)
  /\ UNCHANGED maps

\* An operator[] that calls insert without looking the key up first.
Index_AlwaysInserts(m, key) ==
  /\ Running
  /\ maps[m].alive
  /\ IF maps[m].buckets_count = 0
     THEN /\ last' = Done("index", "terminate", FALSE)
          /\ UNCHANGED <<heap, maps, abs>>
     ELSE LET r == insert(heap, maps[m], key, DefaultValue)
          IN /\ heap' = r.heap
             /\ maps' = [maps EXCEPT ![m] = r.map]
             /\ abs' = IF r.result = "ok"
                       THEN [abs EXCEPT ![m] = (key :> DefaultValue) @@ @]
                       ELSE abs
             /\ last' = Done("index", IF r.result = "ok" THEN "inserted" ELSE r.result,
                             r.rehash)

\* operator[](key)
Index(m, key) ==
  /\ Running
  /\ maps[m].alive
  /\ IF maps[m].buckets_count = 0
     THEN /\ last' = Done("index", "terminate", FALSE)
          /\ UNCHANGED <<heap, maps, abs>>
     ELSE IF __find(heap, maps[m], key) = maps[m].Elist
          THEN LET r == insert(heap, maps[m], key, DefaultValue)
               IN /\ heap' = r.heap
                  /\ maps' = [maps EXCEPT ![m] = r.map]
                  /\ abs' = IF r.result = "ok"
                            THEN [abs EXCEPT ![m] = (key :> DefaultValue) @@ @]
                            ELSE abs
                  /\ last' = Done("index", IF r.result = "ok" THEN "inserted" ELSE r.result,
                                  r.rehash)
          ELSE /\ last' = Done("index", "ok", FALSE)
               /\ UNCHANGED <<heap, maps, abs>>

\* U_Map m(o);
CopyCtor(m, o) ==
  /\ Running
  /\ ~maps[m].alive
  /\ maps[o].alive
  /\ LET r == CopyConstruct(heap, maps[o])
     IN /\ heap' = r.heap
        /\ maps' = [maps EXCEPT ![m] = r.map]
        /\ abs' = [abs EXCEPT ![m] = abs[o]]
        /\ last' = Done("copy", "ok", FALSE)

\* m = o;
CopyAssignment(m, o) ==
  /\ Running
  /\ maps[m].alive
  /\ maps[o].alive
  /\ IF m = o
     THEN UNCHANGED <<heap, maps, abs>>
     ELSE LET r == CopyAssign(heap, maps[m], maps[o])
          IN /\ heap' = r.heap
             /\ maps' = [maps EXCEPT ![m] = r.map]
             /\ abs' = [abs EXCEPT ![m] = abs[o]]
  /\ last' = Done("copy=", "ok", FALSE)

\* The object goes out of scope.
Destroy(m) ==
  /\ Running
  /\ maps[m].alive
  /\ m # "a"
  /\ heap' = Destruct(heap, maps[m])
  /\ maps' = [maps EXCEPT ![m] = NoMap]
  /\ abs' = [abs EXCEPT ![m] = <<>>]
  /\ last' = Done("destroy", "ok", FALSE)

\* U_Map m(std::move(o));
MoveCtor(m, o) ==
  /\ Running
  /\ ~maps[m].alive
  /\ maps[o].alive
  /\ LET r == MoveConstruct(maps[o])
     IN /\ maps' = [maps EXCEPT ![m] = r.map, ![o] = r.source]
        /\ abs' = [abs EXCEPT ![m] = abs[o], ![o] = <<>>]
        /\ last' = Done("move", "ok", FALSE)
  /\ UNCHANGED heap

\* m = std::move(o);
MoveAssignment(m, o) ==
  /\ Running
  /\ maps[m].alive
  /\ maps[o].alive
  /\ IF m = o
     THEN UNCHANGED <<heap, maps, abs>>
     ELSE LET r == MoveAssign(heap, maps[m], maps[o])
          IN /\ heap' = r.heap
             /\ maps' = [maps EXCEPT ![m] = r.map, ![o] = r.source]
             /\ abs' = [abs EXCEPT ![m] = abs[o], ![o] = <<>>]
  /\ last' = Done("move=", "ok", FALSE)

\* Either object goes out of scope.
DestroyEither(m) ==
  /\ Running
  /\ maps[m].alive
  /\ heap' = Destruct(heap, maps[m])
  /\ maps' = [maps EXCEPT ![m] = NoMap]
  /\ abs' = [abs EXCEPT ![m] = <<>>]
  /\ last' = Done("destroy", "ok", FALSE)

\* m == o
Equal(m, o) ==
  /\ Running
  /\ maps[m].alive
  /\ maps[o].alive
  /\ \E ub \in EqualUBOutcomes :
       last' = Done("==", operator_eq(heap, maps[m], maps[o], ub), FALSE)
  /\ UNCHANGED <<heap, maps, abs>>

\* A call on a moved-from object that reads through its null bucket array
\* (insert, erase, find, at, contains, operator[] with a nonzero
\* buckets_count) or its null Elist (reserve, the copy constructor's source).
UseAfterMove(m) ==
  /\ Running
  /\ MovedFrom(maps[m])
  /\ last' = Done("use_after_move", "crash", FALSE)
  /\ UNCHANGED <<heap, maps, abs>>

\* insert(key, val) in which an allocation fails.
InsertBadAlloc(m, key, val) ==
  /\ Running
  /\ maps[m].alive
  /\ \E site \in AllocSites :
       LET r == insert_bad_alloc(heap, maps[m], key, val, site)
       IN /\ heap' = r.heap
          /\ maps' = [maps EXCEPT ![m] = r.map]
          /\ abs' = IF r.map._size = maps[m]._size + 1
                    THEN [abs EXCEPT ![m] = (key :> val) @@ @]
                    ELSE abs
          /\ last' = Done("insert", r.result, r.rehash)

\* reserve(n) in which the allocation fails.
ReserveBadAlloc(m, n) ==
  /\ Running
  /\ maps[m].alive
  /\ LET r == reserve_bad_alloc(heap, maps[m], n)
     IN /\ heap' = r.heap
        /\ maps' = [maps EXCEPT ![m] = r.map]
        /\ last' = Done("reserve", r.result, r.rehash)
  /\ UNCHANGED abs

\* One object, "a", and any number of calls on it.
Next ==
  \/ \E key \in Keys, val \in Vals : Insert("a", key, val) /\ UNCHANGED nops
  \/ \E key \in Keys : Erase("a", key) /\ UNCHANGED nops
  \/ Clear("a") /\ UNCHANGED nops
  \/ \E n \in ReserveSizes : Reserve("a", n) /\ UNCHANGED nops
  \/ \E f \in LoadFactors \cup BadLoadFactors :
       SetMaxLoadFactor("a", f) /\ UNCHANGED nops
  \/ \E key \in Keys : Contains("a", key) /\ UNCHANGED nops
  \/ \E key \in Keys : Find("a", key) /\ UNCHANGED nops
  \/ \E key \in Keys : At("a", key) /\ UNCHANGED nops
  \/ \E key \in Keys, val \in Vals : AtAssign("a", key, val) /\ UNCHANGED nops
  \/ \E key \in Keys : Index("a", key) /\ UNCHANGED nops

Spec == Init /\ [][Next]_vars

\* One more call, of the MaxOps that a run of SpecCopy makes.
Tick == nops < MaxOps /\ nops' = nops + 1

\* Two objects: "a", and "b" which is copy-constructed from it; the calls
\* that can change an object, on either of them.
NextCopy ==
  \/ \E m \in Maps, key \in Keys, val \in Vals : Tick /\ Insert(m, key, val)
  \/ \E m \in Maps, key \in Keys : Tick /\ Erase(m, key)
  \/ \E m \in Maps : Tick /\ Clear(m)
  \/ \E m \in Maps, n \in ReserveSizes : Tick /\ Reserve(m, n)
  \/ \E m \in Maps, f \in LoadFactors : Tick /\ SetMaxLoadFactor(m, f)
  \/ \E m \in Maps, key \in Keys, val \in Vals : Tick /\ AtAssign(m, key, val)
  \/ \E m \in Maps, key \in Keys : Tick /\ Index(m, key)
  \/ \E m, o \in Maps : Tick /\ CopyCtor(m, o)
  \/ \E m, o \in Maps : Tick /\ CopyAssignment(m, o)
  \/ \E m \in Maps : Tick /\ Destroy(m)

SpecCopy == Init /\ [][NextCopy]_vars

\* One object, and calls on it in which the allocator may fail.
NextAlloc ==
  \/ \E key \in Keys, val \in Vals : Insert("a", key, val) /\ UNCHANGED nops
  \/ \E key \in Keys : Erase("a", key) /\ UNCHANGED nops
  \/ Clear("a") /\ UNCHANGED nops
  \/ \E n \in ReserveSizes : Reserve("a", n) /\ UNCHANGED nops
  \/ \E f \in LoadFactors : SetMaxLoadFactor("a", f) /\ UNCHANGED nops
  \/ \E key \in Keys, val \in Vals :
       InsertBadAlloc("a", key, val) /\ UNCHANGED nops
  \/ \E n \in ReserveSizes : ReserveBadAlloc("a", n) /\ UNCHANGED nops

SpecAlloc == Init /\ [][NextAlloc]_vars

\* A call on object m made while m still has its bucket array and sentinel.
Intact(m) == ~MovedFrom(maps[m])

\* Two objects and every way their lifetimes meet: copies, moves, comparison
\* and destruction of either, with the calls that change an object.
NextMove ==
  \/ \E m \in Maps, key \in Keys, val \in Vals :
       Tick /\ Intact(m) /\ Insert(m, key, val)
  \/ \E m \in Maps, key \in Keys : Tick /\ Intact(m) /\ Erase(m, key)
  \/ \E m \in Maps : Tick /\ Clear(m)
  \/ \E m \in Maps, n \in ReserveSizes : Tick /\ Intact(m) /\ Reserve(m, n)
  \/ \E m, o \in Maps : Tick /\ Intact(o) /\ CopyCtor(m, o)
  \/ \E m, o \in Maps : Tick /\ Intact(o) /\ CopyAssignment(m, o)
  \/ \E m, o \in Maps : Tick /\ MoveCtor(m, o)
  \/ \E m, o \in Maps : Tick /\ MoveAssignment(m, o)
  \/ \E m \in Maps : Tick /\ DestroyEither(m)
  \/ \E m, o \in Maps : Tick /\ Equal(m, o)
  \/ \E m \in Maps : Tick /\ UseAfterMove(m)

SpecMove == Init /\ [][NextMove]_vars
\* ------------------------------------------------------------- observation
\* begin(), operator++ up to end(): the addresses visited from the sentinel's
\* successor until the sentinel comes back.  A walk that leaves the allocated
\* objects, or does not return within as many steps as there are objects,
\* ends in nullptr.
RECURSIVE ListFrom(_, _, _, _)
ListFrom(h, E, node, fuel) ==
  IF node = E
  THEN <<>>
  ELSE IF fuel = 0 \/ node \notin DOMAIN h
       THEN <<nullptr>>
       ELSE <<node>> \o ListFrom(h, E, h[node].next_node, fuel - 1)

TraversalOf(h, c) ==
  ListFrom(h, c.Elist, h[c.Elist].next_node, Cardinality(DOMAIN h))

Traversal(m) == TraversalOf(heap, maps[m])

Range(f) == {f[x] : x \in DOMAIN f}

Closed(T) == nullptr \notin Range(T)

\* The walk of the lookups over the whole run of bucket i: from the anchor's
\* successor while the node is not the sentinel and its cached index is i.
RECURSIVE RunFrom(_, _, _, _, _)
RunFrom(h, E, node, i, fuel) ==
  IF node # E /\ fuel > 0 /\ node \in DOMAIN h /\ h[node].cached = i
  THEN <<node>> \o RunFrom(h, E, h[node].next_node, i, fuel - 1)
  ELSE <<>>

RunOf(h, c, i) ==
  RunFrom(h, c.Elist, h[c.buckets[i]].next_node, i, Cardinality(DOMAIN h))

\* The bucket a key belongs to.
BucketOf(c, key) == hasher(key) % c.buckets_count

\* The position of address n in the sequence T (0 for the sentinel, which
\* precedes the first entry).
PosIn(T, n) == IF \E j \in DOMAIN T : T[j] = n
               THEN CHOOSE j \in DOMAIN T : T[j] = n
               ELSE 0

Live == {m \in Maps : maps[m].alive}

\* ------------------------------------------------------------------ claims

\* Bucket i of container c is anchored as it should be: T is the traversal
\* list, run the walk from the anchor's successor, P the positions in T of
\* the entries whose key hashes to i.
AnchorOk(h, c, i) ==
  LET T == TraversalOf(h, c)
      a == c.buckets[i]
      run == RunOf(h, c, i)
      P == {j \in DOMAIN T : BucketOf(c, h[T[j]].key) = i}
  IN /\ Closed(T)
     /\ \/ a = c.Elist
        \/ /\ a \in Range(T)
           /\ BucketOf(c, h[a].key) # i
     /\ Range(run) = {T[j] : j \in P}
     /\ P = (PosIn(T, a) + 1)..(PosIn(T, a) + Len(run))

\* C1: for every bucket i with a non-null anchor, the anchor is the sentinel
\* or a live entry of another bucket, and the walk from the anchor's
\* successor while cached = i visits exactly the live entries whose key
\* hashes to i, which lie next to each other in the traversal list, directly
\* after the anchor.
C1_AnchorInvariant ==
  \A m \in Live :
    \A i \in DOMAIN maps[m].buckets :
      maps[m].buckets[i] # nullptr => AnchorOk(heap, maps[m], i)

\* A rehash has re-linked three entries: one bucket holds two of them and is
\* anchored at the entry of the other bucket.
C1_Witness ==
  /\ last.op = "reserve" /\ last.result = "ok"
  /\ maps["a"]._size = 3
  /\ \E i \in DOMAIN maps["a"].buckets :
       /\ maps["a"].buckets[i] \notin {nullptr, maps["a"].Elist}
       /\ Len(RunOf(heap, maps["a"], i)) = 2

\* C2: no two live entries of a container have equal keys, at every point of
\* any sequence of insert, index-access, erase, clear, reserve, automatic
\* rehash and copy operations.
C2_UniqueKeys ==
  \A m \in Live :
    LET T == Traversal(m)
    IN /\ Closed(T)
       /\ \A i, j \in DOMAIN T : i # j => heap[T[i]].key # heap[T[j]].key

\* Both objects hold entries, the copy was made and an insert followed it.
C2_Witness ==
  /\ maps["b"].alive
  /\ maps["b"]._size >= 2
  /\ maps["a"]._size >= 2
  /\ last.op = "insert" /\ last.result = "ok"

\* C3: every pair put in by insert (or index-access) and not erased, cleared
\* or reassigned since is what find(k) points to: the key and the value last
\* given to it.
C3_RoundTrip ==
  \A m \in Live :
    \A k \in DOMAIN abs[m] :
      LET n == __find(heap, maps[m], k)
      IN /\ n # maps[m].Elist
         /\ n \in DOMAIN heap
         /\ heap[n].key = k
         /\ heap[n].val = abs[m][k]

\* Two pairs are in, one with a value other than the default, the bucket
\* array has grown since construction and another key's erase came last.
C3_Witness ==
  /\ Cardinality(DOMAIN abs["a"]) = 2
  /\ maps["a"].buckets_count > MaxInitBuckets
  /\ last.op = "erase" /\ last.result = "ok"
  /\ \E k \in DOMAIN abs["a"] : abs["a"][k] # DefaultValue

\* What __find_in_bucket (contains) and __find (find, at) give for key k in
\* container m, against the pairs recorded as put in.
LookupsAgree(m, k) ==
  LET c == maps[m]
      n == __find(heap, c, k)
      inBucket == __find_in_bucket(heap, c, __hash(c, k), k)
  IN IF k \in DOMAIN abs[m]
     THEN inBucket /\ n # c.Elist /\ heap[n].val = abs[m][k]
     ELSE ~inBucket /\ n = c.Elist

\* C4: with at least one bucket, contains, find and at agree with the keys
\* put in and not taken out: present keys are found with their value, absent
\* keys give false, end() and KeyNotFound; and a lookup changes nothing.
C4_LookupsAgree ==
  /\ [](\A m \in Live : maps[m].buckets_count >= 1 =>
          \A k \in Keys : LookupsAgree(m, k))
  /\ [][/\ last'.op \in {"contains", "find", "at"} => UNCHANGED <<heap, maps>>
        /\ \A k \in Keys :
             /\ Contains("a", k) /\ maps["a"].buckets_count >= 1 =>
                  (last'.result = "true" <=> k \in DOMAIN abs["a"])
             /\ Find("a", k) /\ maps["a"].buckets_count >= 1 =>
                  (last'.result = "found" <=> k \in DOMAIN abs["a"])
             /\ At("a", k) /\ maps["a"].buckets_count >= 1 =>
                  (last'.result = "ok" <=> k \in DOMAIN abs["a"])
             /\ At("a", k) /\ k \notin DOMAIN abs["a"]
                  /\ maps["a"].buckets_count >= 1 =>
                  last'.result = "KeyNotFound"]_vars

\* at() has thrown KeyNotFound for an absent key whose bucket holds another.
C4_Witness ==
  /\ last.op = "at" /\ last.result = "KeyNotFound"
  /\ maps["a"].buckets_count = 2
  /\ DOMAIN abs["a"] = {0, 1}

\* C5: from the sentinel the next links come back to the sentinel, visiting
\* every live entry exactly once, and size() is the number of entries
\* visited; no entry is on the list of two containers or of none.
C5_CountConsistency ==
  /\ \A m \in Live :
       LET T == Traversal(m)
       IN /\ Closed(T)
          /\ \A i, j \in DOMAIN T : i # j => T[i] # T[j]
          /\ Len(T) = maps[m]._size
          /\ maps[m].Elist \in DOMAIN heap
  /\ \A m, o \in Live :
       m # o => (Range(Traversal(m)) \cup {maps[m].Elist})
                  \cap (Range(Traversal(o)) \cup {maps[o].Elist}) = {}
  /\ DOMAIN heap =
       UNION {Range(Traversal(m)) \cup {maps[m].Elist} : m \in Live}

\* The copy was made of a map with entries and has since lost one.
C5_Witness ==
  /\ maps["b"].alive
  /\ maps["a"]._size = 3
  /\ maps["b"]._size = 2
  /\ last.op = "erase" /\ last.result = "ok"
\* C6: erase(k) for an absent key k, on a container with at least one bucket,
\* throws KeyNotFound and leaves size, entries, traversal list and anchors
\* as they were, whether k's bucket holds other keys or is empty.
C6_EraseAbsentThrows ==
  [][\A k \in Keys :
       Erase("a", k) /\ maps["a"].buckets_count >= 1 /\ k \notin DOMAIN abs["a"]
         => /\ last'.result = "KeyNotFound"
            /\ UNCHANGED <<heap, maps>>]_vars

\* C7: insert(k, v) for a key that is present throws DuplicateKey and changes
\* nothing: size, bucket count, k's value, traversal list and anchors are the
\* same and no node is allocated.
C7_InsertDuplicateThrows ==
  [][\A k \in Keys, v \in Vals :
       Insert("a", k, v) /\ k \in DOMAIN abs["a"]
         => /\ last'.result = "DuplicateKey"
            /\ UNCHANGED <<heap, maps>>]_vars

\* insert has thrown DuplicateKey in a map of two entries in one bucket.
C7_Witness ==
  /\ last.op = "insert" /\ last.result = "DuplicateKey"
  /\ maps["a"]._size = 2
  /\ \E i \in DOMAIN maps["a"].buckets :
       maps["a"].buckets[i] # nullptr /\ Len(RunOf(heap, maps["a"], i)) = 2

\* The effect of a step that erases the present key k from "a": n is k's
\* node, pred and succ its neighbours in the traversal list before the step.
EraseFrame(k) ==
  LET c == maps["a"]
      d == maps'["a"]
      T == TraversalOf(heap, c)
      n == __find(heap, c, k)
      p == PosIn(T, n)
      pred == IF p = 1 THEN c.Elist ELSE T[p - 1]
      succ == IF p = Len(T) THEN c.Elist ELSE T[p + 1]
      buck == BucketOf(c, k)
  IN /\ last'.result = "ok"
     /\ p >= 1
     /\ d._size = c._size - 1
     /\ d.buckets_count = c.buckets_count
     /\ __find(heap', d, k) = d.Elist
     /\ \A k2 \in (DOMAIN abs["a"]) \ {k} :
          /\ __find(heap', d, k2) = __find(heap, c, k2)
          /\ heap'[__find(heap', d, k2)].val = abs["a"][k2]
     /\ TraversalOf(heap', d) = SubSeq(T, 1, p - 1) \o SubSeq(T, p + 1, Len(T))
     /\ DOMAIN heap' = (DOMAIN heap) \ {n}
     /\ \A i \in DOMAIN c.buckets :
          d.buckets[i] # c.buckets[i] =>
            \/ /\ i = buck
               /\ d.buckets[i] = nullptr
               /\ \A k2 \in (DOMAIN abs["a"]) \ {k} : BucketOf(c, k2) # buck
            \/ /\ succ # c.Elist
               /\ i = heap[succ].cached
               /\ d.buckets[i] = pred

\* C8: erase(k) for a present key removes exactly k's entry: size is one
\* less, k is absent, every other key is found at the same node with its
\* value, the other entries keep their order, and an anchor changes only for
\* k's bucket (to null, when k was its last entry) and for the bucket of k's
\* successor (to k's predecessor).
C8_EraseFrame ==
  [][\A k \in Keys :
       Erase("a", k) /\ k \in DOMAIN abs["a"] => EraseFrame(k)]_vars

\* An erase has emptied one bucket and moved the anchor of another: the two
\* entries left are in different buckets, the second anchored at the first.
C8_Witness ==
  /\ last.op = "erase" /\ last.result = "ok"
  /\ maps["a"]._size = 2
  /\ maps["a"].buckets_count = 4
  /\ Cardinality({i \in DOMAIN maps["a"].buckets :
                    maps["a"].buckets[i] # nullptr}) = 2
  /\ \E i \in DOMAIN maps["a"].buckets :
       maps["a"].buckets[i] \notin {nullptr, maps["a"].Elist}

\* An insert or an inserting index-access has added an entry to "a".
Added ==
  /\ last'.op \in {"insert", "index"}
  /\ maps'["a"]._size = maps["a"]._size + 1

\* C9: right after an insertion that adds an entry, for every positive max
\* load factor f, size() / bucket_count() as a real ratio is <= f, or that
\* insertion ran a rehash.
C9_LoadFactorBound ==
  [][Added =>
       \/ maps'["a"]._size * maps'["a"]._max_load_factor[2]
            <= maps'["a"]._max_load_factor[1] * maps'["a"].buckets_count
       \/ last'.rehash]_vars

\* C10: an insertion that adds an entry and brings entry_count / bucket_count
\* to max_load_factor or above rehashes to exactly twice the bucket count,
\* and every key, the new one included, is still found with its value.
C10_RehashDoubles ==
  [][Added /\ maps'["a"]._size * maps["a"]._max_load_factor[2]
                >= maps["a"]._max_load_factor[1] * maps["a"].buckets_count
       => /\ maps'["a"].buckets_count = 2 * maps["a"].buckets_count
          /\ \A k \in DOMAIN abs'["a"] :
               LET n == __find(heap', maps'["a"], k)
               IN n # maps'["a"].Elist /\ heap'[n].val = abs'["a"][k]]_vars

\* C11: reserve(n) with n at least the bucket count leaves at least n buckets
\* and re-links the nodes it has without allocating or releasing any: the
\* same addresses are on the list, each with its key and value, size and the
\* sentinel are the same, and every key is found at the node it was at; only
\* next links, cached indices and anchors differ.
C11_ReserveRelinks ==
  [][\A n \in ReserveSizes :
       Reserve("a", n) /\ n >= maps["a"].buckets_count =>
         LET c == maps["a"]
             d == maps'["a"]
             T == TraversalOf(heap, c)
             U == TraversalOf(heap', d)
         IN /\ last'.result = "ok"
            /\ d.buckets_count >= n
            /\ d._size = c._size
            /\ d.Elist = c.Elist
            /\ d._max_load_factor = c._max_load_factor
            /\ DOMAIN heap' = DOMAIN heap
            /\ Closed(U)
            /\ Len(U) = Len(T)
            /\ Range(U) = Range(T)
            /\ \A x \in Range(T) :
                 /\ heap'[x].key = heap[x].key
                 /\ heap'[x].val = heap[x].val
            /\ abs' = abs
            /\ \A k \in DOMAIN abs["a"] :
                 /\ __find(heap', d, k) # d.Elist
                 /\ __find(heap', d, k) = __find(heap, c, k)
                 /\ heap'[__find(heap', d, k)].val = abs["a"][k]]_vars

\* A reserve has grown the bucket array of a map of three entries, one of
\* them with a value other than the default.
C11_Witness ==
  /\ last.op = "reserve" /\ last.result = "ok" /\ last.rehash
  /\ maps["a"]._size = 3
  /\ maps["a"].buckets_count = MaxReserve
  /\ \E k \in DOMAIN abs["a"] : abs["a"][k] # DefaultValue

\* C12: a == b is true exactly when a and b hold the same set of keys,
\* whatever their values and bucket counts, and the comparison never fails.
C12_EqualityIsKeySetEquality ==
  [][\A m, o \in Maps :
       Equal(m, o) /\ Intact(m) /\ Intact(o) =>
         last'.result = IF DOMAIN abs[m] = DOMAIN abs[o]
                        THEN "true"
                        ELSE "false"]_vars

\* The addresses container c owns: its sentinel and the nodes on its list.
Footprint(h, c) ==
  IF c.alive /\ c.Elist # nullptr
  THEN {c.Elist} \cup Range(TraversalOf(h, c))
  ELSE {}

\* The pairs container c holds.
Contents(h, c) == {<<h[x].key, h[x].val>> : x \in Range(TraversalOf(h, c))}

\* The step leaves object o as it was: its members, and every object it
\* owns, with its links, cached index, key and value.
Unaffected(o) ==
  /\ maps'[o] = maps[o]
  /\ \A x \in Footprint(heap, maps[o]) : x \in DOMAIN heap' /\ heap'[x] = heap[x]

\* A call of insert, erase, clear or reserve on object m.
ChangingCall(m) ==
  \/ last'.op = "insert" /\ \E key \in Keys, val \in Vals : Insert(m, key, val)
  \/ last'.op = "erase" /\ \E key \in Keys : Erase(m, key)
  \/ last'.op = "clear" /\ Clear(m)
  \/ last'.op = "reserve" /\ \E n \in ReserveSizes : Reserve(m, n)

\* C13: a copy construction or copy assignment m <- o gives m the size, the
\* bucket count and the key-to-value pairs of o, with every anchor of m as
\* the anchor invariant wants it, and m shares no sentinel and no node with
\* o, which is left as it was; and a later insert, erase, clear or reserve
\* on one object leaves the other as it was.
C13_CopyIndependent ==
  [][/\ \A m, o \in Maps :
          /\ m # o
          /\ last'.op \in {"copy", "copy="}
          /\ CopyCtor(m, o) \/ CopyAssignment(m, o)
          =>
            LET d == maps'[m]
                c == maps[o]
            IN /\ Footprint(heap', d) \cap Footprint(heap', maps'[o]) = {}
               /\ Footprint(heap', d) \cap DOMAIN heap = {}
               /\ Unaffected(o)
               /\ d._size = c._size
               /\ d.buckets_count = c.buckets_count
               /\ Contents(heap', d) = Contents(heap, c)
               /\ Len(TraversalOf(heap', d)) = c._size
               /\ \A i \in DOMAIN d.buckets :
                    d.buckets[i] # nullptr => AnchorOk(heap', d, i)
     /\ \A m \in Maps :
          ChangingCall(m) => \A o \in Maps \ {m} : Unaffected(o)]_vars

\* The copy of a map of two entries, one with a value other than the
\* default, has had its bucket array grown by reserve; the original has not.
C13_Witness ==
  /\ maps["b"].alive
  /\ last.op = "reserve" /\ last.result = "ok"
  /\ maps["b"].buckets_count > maps["a"].buckets_count
  /\ abs["a"] = abs["b"]
  /\ Cardinality(DOMAIN abs["a"]) = 2
  /\ \E k \in DOMAIN abs["a"] : abs["a"][k] # DefaultValue

\* C14: a move construction or move assignment m <- o from an object that
\* has its sentinel gives m the size, bucket count, anchors, sentinel and
\* nodes of o (the same addresses, in the same order, each with its key and
\* value); what m held before is released and nothing else is; and the
\* destruction of a moved-from object releases nothing and leaves the other
\* object as it was.
C14_MoveTransfers ==
  [][/\ \A m, o \in Maps :
          /\ m # o
          /\ Intact(o)
          /\ last'.op \in {"move", "move="}
          /\ MoveCtor(m, o) \/ MoveAssignment(m, o)
          =>
            LET c == maps[o]
                d == maps'[m]
            IN /\ d._size = c._size
               /\ d.buckets_count = c.buckets_count
               /\ d.buckets = c.buckets
               /\ d.Elist = c.Elist
               /\ DOMAIN heap' = (DOMAIN heap) \ Footprint(heap, maps[m])
               /\ Footprint(heap, c) \subseteq DOMAIN heap'
               /\ \A x \in Footprint(heap, c) : heap'[x] = heap[x]
               /\ TraversalOf(heap', d) = TraversalOf(heap, c)
               /\ abs'[m] = abs[o]
     /\ \A o \in Maps :
          /\ last'.op = "destroy"
          /\ MovedFrom(maps[o])
          /\ DestroyEither(o)
          =>
            /\ heap' = heap
            /\ \A m \in Maps \ {o} : maps'[m] = maps[m]]_vars

\* "a" held two entries, "b" was move-constructed from it and has a's
\* sentinel, and the moved-from "a" has been destroyed.
C14_Witness ==
  /\ last.op = "destroy"
  /\ ~maps["a"].alive
  /\ maps["b"].alive
  /\ maps["b"].Elist = 1
  /\ maps["b"]._size = 2
  /\ Len(Traversal("b")) = 2

\* C15: a move construction or move assignment m <- o leaves the source o
\* empty: no bucket array, no sentinel, size() = 0 and a bucket count of 0.
C15_MovedFromEmpty ==
  [][\A m, o \in Maps :
       /\ m # o
       /\ last'.op \in {"move", "move="}
       /\ MoveCtor(m, o) \/ MoveAssignment(m, o)
       =>
         /\ maps'[o].Elist = nullptr
         /\ maps'[o].buckets = NullBuckets(0)
         /\ maps'[o]._size = 0
         /\ maps'[o].buckets_count = 0]_vars

\* C16: on a container with zero buckets every call that resolves a key's
\* bucket (insert, erase, find, at, contains, operator[]) ends in the
\* InvalidState exception, which the caller can catch, and leaves the
\* container as it was.
C16_ZeroBucketsInvalidState ==
  [][/\ maps["a"].buckets_count = 0
     /\ last'.op \in {"insert", "erase", "find", "at", "at=", "contains", "index"}
     => /\ last'.result = "InvalidState"
        /\ UNCHANGED <<heap, maps>>]_vars

\* C17: when the allocation of the new bucket array fails in a rehash, be it
\* the rehash of reserve or the automatic one at the end of insert, the call
\* throws and the container is as it was before the call: same entries,
\* size, bucket count, traversal list and anchors.
C17_RehashAllocFailureUnchanged ==
  [][last'.result = "bad_alloc" /\ last'.rehash
       => UNCHANGED <<heap, maps>>]_vars

IndexEffect(k) ==
  LET c == maps["a"]
      d == maps'["a"]
  IN IF k \in DOMAIN abs["a"]
     THEN /\ last'.result = "ok"
          /\ UNCHANGED <<heap, maps>>
          /\ heap[__find(heap, c, k)].val = abs["a"][k]
     ELSE LET r == insert(heap, c, k, DefaultValue)
          IN /\ last'.result = "inserted"
             /\ d._size = c._size + 1
             /\ DOMAIN heap' = (DOMAIN heap) \cup {r.ret}
             /\ r.ret \notin DOMAIN heap
             /\ heap'[r.ret].key = k
             /\ heap'[r.ret].val = DefaultValue
             /\ __find(heap', d, k) = r.ret
             /\ Len(TraversalOf(heap', d)) = Len(TraversalOf(heap, c)) + 1
             /\ \A k2 \in DOMAIN abs["a"] :
                  /\ __find(heap', d, k2) = __find(heap, c, k2)
                  /\ heap'[__find(heap', d, k2)].val = abs["a"][k2]

OwnsItsNodes(m) ==
  LET c == maps[m]
      T == Traversal(m)
  IN IF MovedFrom(c)
     THEN c.buckets = NullBuckets(0)
     ELSE /\ c.Elist \in DOMAIN heap
          /\ Closed(T)
          /\ \A i, j \in DOMAIN T : i # j => T[i] # T[j]
          /\ \A i \in DOMAIN c.buckets :
               c.buckets[i] \in {nullptr} \cup Footprint(heap, c)

\* The addresses released by the step.
Released == (DOMAIN heap) \ (DOMAIN heap')

\* C20: at every point of any sequence of insert, erase, clear, reserve,
\* copies, moves (an assignment to itself included) and destructions, every
\* allocated node and sentinel is owned by exactly one live object, whose
\* links and anchors lead to allocated objects of its own only; and a step
\* releases objects only in erase (one node), clear, destruction and
\* assignment, each of them owned by one object before the step and by none
\* after it.
C20_SingleOwner ==
  /\ [](/\ \A m \in Live : OwnsItsNodes(m)
        /\ \A m, o \in Live :
             m # o => Footprint(heap, maps[m]) \cap Footprint(heap, maps[o]) = {}
        /\ DOMAIN heap = UNION {Footprint(heap, maps[m]) : m \in Maps})
  /\ [][Released # {} =>
          /\ last'.op \in {"erase", "clear", "destroy", "copy=", "move="}
          /\ last'.op = "erase" => Cardinality(Released) = 1
          /\ \A x \in Released :
               /\ Cardinality({m \in Maps : x \in Footprint(heap, maps[m])}) = 1
               /\ \A m \in Maps : x \notin Footprint(heap', maps'[m])]_vars

\* "a" held an entry, "b" was made from it and given a second entry, and
\* a = std::move(b) has released what "a" held and handed it b's two nodes.
C20_Witness ==
  /\ last.op = "move="
  /\ MovedFrom(maps["b"])
  /\ maps["a"].Elist \notin {nullptr, 1}
  /\ maps["a"]._size = 2
  /\ Cardinality(DOMAIN heap) = 3

\* C21: in every container with at least one bucket, the cached index of
\* every entry on the list is hash(key) mod the bucket count, hence below
\* the bucket count, after an automatic rehash, after reserve and in a copy
\* as well; and the anchor of bucket i is null exactly when no entry on the
\* list has the cached index i.
C21_CachedIndex ==
  \A m \in Live :
    maps[m].buckets_count >= 1 =>
      LET c == maps[m]
          T == Traversal(m)
      IN /\ Closed(T)
         /\ \A x \in Range(T) :
              /\ heap[x].cached = hasher(heap[x].key) % c.buckets_count
              /\ heap[x].cached < c.buckets_count
         /\ \A i \in DOMAIN c.buckets :
              c.buckets[i] = nullptr <=> \A x \in Range(T) : heap[x].cached # i

\* The copy has had its bucket array grown by reserve: a key that both
\* objects hold has one cached index in the copy and another in the
\* original, and the copy has an empty bucket.
C21_Witness ==
  /\ maps["b"].alive
  /\ last.op = "reserve" /\ last.rehash
  /\ maps["b"].buckets_count # maps["a"].buckets_count
  /\ maps["a"].buckets_count >= 1
  /\ \E k \in (DOMAIN abs["a"]) \cap (DOMAIN abs["b"]) :
       heap[__find(heap, maps["a"], k)].cached
         # heap[__find(heap, maps["b"], k)].cached
  /\ \E i \in DOMAIN maps["b"].buckets : maps["b"].buckets[i] = nullptr
====
